---- MODULE Spec2Model ----
(***************************************************************************)
(* Chandelier Exit alert bot: the two programs of the repository,          *)
(*   src/bot.py            (Discord sink, deque buffer, retrying worker)   *)
(*   src/chandelierbot.py  (Telegram sink, DataFrame buffer, one-shot      *)
(*                          worker)                                        *)
(* as one state machine.  The variable `variant` says which program runs;  *)
(* it is chosen in Init and never changes.                                 *)
(*                                                                         *)
(* Prices are Python floats in the source.  Here they are dyadic rationals *)
(* m / 2^e, computed exactly.  With ATR_PERIOD a power of two every        *)
(* division of the source (by 2, by 4, by ATR_PERIOD) is exact in binary   *)
(* floating point as well, so the model's values are the program's values. *)
(***************************************************************************)
EXTENDS Integers, Sequences, FiniteSets, TLC

----------------------------------------------------------------------------
(* Sizes.  The source has ATR_PERIOD = 22 and HISTORY_LIMIT = 200; the     *)
(* model keeps their roles (HISTORY_LIMIT >= ATR_PERIOD >= 2) at a scale   *)
(* TLC can enumerate.                                                      *)

\* ATR window (22 in the source), scaled.
ATR_PERIOD == 2

\* Capacity of a stream's candle buffer (200 in the source), scaled.
HISTORY_LIMIT == 4

\* Closed candles a stream's live feed delivers at most.
MaxTicks == 3

----------------------------------------------------------------------------
(* Exact arithmetic on dyadic rationals [m, e] = m / 2^e, e >= 0.          *)
(* e = -1 marks NaN / None (an undefined level).                           *)

RECURSIVE Pow2(_)
Pow2(k) == IF k = 0 THEN 1 ELSE 2 * Pow2(k - 1)

RECURSIVE Log2(_)
Log2(k) == IF k <= 1 THEN 0 ELSE 1 + Log2(k \div 2)

RECURSIVE Norm(_, _)
Norm(m, e) == IF e > 0 /\ m % 2 = 0 THEN Norm(m \div 2, e - 1)
              ELSE [m |-> m, e |-> e]

MaxInt(a, b) == IF a >= b THEN a ELSE b

MinInt(a, b) == IF a <= b THEN a ELSE b

Flt(n) == [m |-> n, e |-> 0]

NaN == [m |-> 0, e |-> 0 - 1]

IsNaN(a) == a.e < 0

\* numerator of a over the denominator 2^e
Num(a, e) == a.m * Pow2(e - a.e)

Add(a, b) == LET e == MaxInt(a.e, b.e) IN Norm(Num(a, e) + Num(b, e), e)

Sub(a, b) == LET e == MaxInt(a.e, b.e) IN Norm(Num(a, e) - Num(b, e), e)

\* k * a for an integer k
Mul(k, a) == Norm(k * a.m, a.e)

\* a / k for k a power of two
Div(a, k) == Norm(a.m, a.e + Log2(k))

Abs(a) == IF a.m < 0 THEN [m |-> 0 - a.m, e |-> a.e] ELSE a

\* a > b and a < b; any comparison with NaN is false
Gt(a, b) == /\ ~IsNaN(a)
            /\ ~IsNaN(b)
            /\ LET e == MaxInt(a.e, b.e) IN Num(a, e) > Num(b, e)

Lt(a, b) == Gt(b, a)

\* Python's max(a, b) and min(a, b): the first argument unless the second beats it
PyMax(a, b) == IF Gt(b, a) THEN b ELSE a

PyMin(a, b) == IF Lt(b, a) THEN b ELSE a

----------------------------------------------------------------------------
(* Candles and the market.                                                 *)

Candle(t, o, h, l, c) == [time |-> t, open |-> o, high |-> h, low |-> l, close |-> c]

Closes(cs) == [i \in 1..Len(cs) |-> cs[i].close]

\* the last n elements of a sequence (all of it when it is shorter)
LastN(q, n) == IF Len(q) <= n THEN q ELSE SubSeq(q, Len(q) - n + 1, Len(q))

\* The market data of one (symbol, interval): the close prices of its candles, in
\* time order, repeating.  "updown" dips at the end of the first HISTORY_LIMIT
\* candles, jumps and falls back; "slide" is flat and then falls steadily.
Markets == {"updown", "slide"}

MarketPrices(m) == IF m = "updown" THEN <<4, 4, 4, 3, 6, 1, 4>>
                   ELSE <<5, 5, 5, 5, 4, 3, 2>>

\* the i-th candle of market m (i >= 1): time i, all four prices at the close price
MarketCandle(m, i) ==
    LET ps == MarketPrices(m)
        p  == Flt(ps[((i - 1) % Len(ps)) + 1])
    IN  Candle(i, p, p, p, p)

\* the klines a history request returns: the n candles closed so far
History(m, n) == [i \in 1..n |-> MarketCandle(m, i)]

\* sizes of the historical batch a stream may be bootstrapped from
BootLens == {0, HISTORY_LIMIT}

----------------------------------------------------------------------------
(* Heikin-Ashi.                                                            *)

\* a transform that takes ha_high and ha_low from the raw candle alone
HaCandle_RawExtremes(c, ha_open) ==
    LET ha_close == Div(Add(Add(Add(c.open, c.high), c.low), c.close), 4)
    IN  Candle(c.time, ha_open, c.high, c.low, ha_close)

\* one synthetic candle from the raw candle c and its ha_open
HaCandle(c, ha_open) ==
    LET ha_close == Div(Add(Add(Add(c.open, c.high), c.low), c.close), 4)
        ha_high  == PyMax(PyMax(c.high, ha_open), ha_close)
        ha_low   == PyMin(PyMin(c.low, ha_open), ha_close)
    IN  Candle(c.time, ha_open, ha_high, ha_low, ha_close)

\* ha_candles extended by the synthetic candle of c
HaAppend(ha_candles, c) ==
    IF Len(ha_candles) = 0
    THEN <<HaCandle(c, Div(Add(c.open, c.close), 2))>>
    ELSE LET prev == ha_candles[Len(ha_candles)]
         IN  Append(ha_candles, HaCandle(c, Div(Add(prev.open, prev.close), 2)))

RECURSIVE HaPrefix(_, _)
HaPrefix(candles, i) == IF i = 0 THEN <<>>
                        ELSE HaAppend(HaPrefix(candles, i - 1), candles[i])

convert_to_heikin_ashi(candles) == HaPrefix(candles, Len(candles))

----------------------------------------------------------------------------
(* The trend engine.  Indices are 1-based here and 0-based in the source:  *)
(* the source's index ATR_PERIOD - 1 is the index ATR_PERIOD here.         *)
(* v is the variant: bot.py computes the ATR itself, leaves atr undefined  *)
(* and the raw stops 0.0 below the period; chandelierbot.py takes the ATR  *)
(* from ta.volatility.AverageTrueRange (0 below the period, first true     *)
(* range high - low) and its rolling max/min stops are NaN there.          *)

\* tr[i]
TrueRange(v, cs, i) ==
    LET hl == Sub(cs[i].high, cs[i].low)
        prev_close == IF i > 1 THEN cs[i - 1].close ELSE cs[1].close
    IN  IF v = "chandelierbot" /\ i = 1 THEN hl
        ELSE PyMax(PyMax(hl, Abs(Sub(cs[i].high, prev_close))),
                   Abs(Sub(cs[i].low, prev_close)))

RECURSIVE SumTR(_, _, _)
SumTR(v, cs, k) == IF k = 0 THEN Flt(0) ELSE Add(SumTR(v, cs, k - 1), TrueRange(v, cs, k))

\* atr[i]
RECURSIVE Atr(_, _, _)
Atr(v, cs, i) ==
    IF i < ATR_PERIOD THEN (IF v = "bot" THEN NaN ELSE Flt(0))
    ELSE IF i = ATR_PERIOD THEN Div(SumTR(v, cs, ATR_PERIOD), ATR_PERIOD)
    ELSE Div(Add(Mul(ATR_PERIOD - 1, Atr(v, cs, i - 1)), TrueRange(v, cs, i)), ATR_PERIOD)

RECURSIVE MaxClose(_, _, _)
MaxClose(cs, from, to) == IF from = to THEN cs[to].close
                          ELSE PyMax(MaxClose(cs, from, to - 1), cs[to].close)

RECURSIVE MinClose(_, _, _)
MinClose(cs, from, to) == IF from = to THEN cs[to].close
                          ELSE PyMin(MinClose(cs, from, to - 1), cs[to].close)

\* the raw stops below the period
UndefinedStop(v) == IF v = "bot" THEN Flt(0) ELSE NaN

\* long_stop[i], short_stop[i]
LongStop(v, cs, atr_mult, i) ==
    IF i < ATR_PERIOD THEN UndefinedStop(v)
    ELSE Sub(MaxClose(cs, i - ATR_PERIOD + 1, i), Mul(atr_mult, Atr(v, cs, i)))

ShortStop(v, cs, atr_mult, i) ==
    IF i < ATR_PERIOD THEN UndefinedStop(v)
    ELSE Add(MinClose(cs, i - ATR_PERIOD + 1, i), Mul(atr_mult, Atr(v, cs, i)))

\* the direction update with the two tests in the other order
Direction_ShortFirst(close, prev_short, prev_long, prev_trend) ==
    IF Lt(close, prev_long) THEN 0 - 1
    ELSE IF Gt(close, prev_short) THEN 1
    ELSE prev_trend

\* the direction update with >= and <= for > and <
Direction_NonStrict(close, prev_short, prev_long, prev_trend) ==
    IF Gt(close, prev_short) \/ close = prev_short THEN 1
    ELSE IF Lt(close, prev_long) \/ close = prev_long THEN 0 - 1
    ELSE prev_trend

\* the direction at index i from the close and the previous adjusted levels
Direction(close, prev_short, prev_long, prev_trend) ==
    IF Gt(close, prev_short) THEN 1
    ELSE IF Lt(close, prev_long) THEN 0 - 1
    ELSE prev_trend

\* the ratchet comparing and combining with the previous raw levels instead of the
\* previous adjusted ones
RatchetStep_RawLevel(v, cs, atr_mult, i, r) ==
    LET prev_long  == r.long_adj[i - 1]
        prev_short == r.short_adj[i - 1]
        raw_long   == LongStop(v, cs, atr_mult, i - 1)
        raw_short  == ShortStop(v, cs, atr_mult, i - 1)
        long_stop  == LongStop(v, cs, atr_mult, i)
        short_stop == ShortStop(v, cs, atr_mult, i)
    IN  [long_adj  |-> Append(r.long_adj,
                              IF Gt(cs[i - 1].close, raw_long)
                              THEN PyMax(long_stop, raw_long) ELSE long_stop),
         short_adj |-> Append(r.short_adj,
                              IF Lt(cs[i - 1].close, raw_short)
                              THEN PyMin(short_stop, raw_short) ELSE short_stop),
         trend     |-> Append(r.trend,
                              Direction(cs[i].close, prev_short, prev_long, r.trend[i - 1]))]

\* one pass of the ratchet loop: r holds long_adj, short_adj and trend up to i - 1
RatchetStep(v, cs, atr_mult, i, r) ==
    LET prev_long  == r.long_adj[i - 1]
        prev_short == r.short_adj[i - 1]
        long_stop  == LongStop(v, cs, atr_mult, i)
        short_stop == ShortStop(v, cs, atr_mult, i)
    IN  [long_adj  |-> Append(r.long_adj,
                              IF Gt(cs[i - 1].close, prev_long)
                              THEN PyMax(long_stop, prev_long) ELSE long_stop),
         short_adj |-> Append(r.short_adj,
                              IF Lt(cs[i - 1].close, prev_short)
                              THEN PyMin(short_stop, prev_short) ELSE short_stop),
         trend     |-> Append(r.trend,
                              Direction(cs[i].close, prev_short, prev_long, r.trend[i - 1]))]

\* long_adj, short_adj and trend after the loop has run up to index i
RECURSIVE Ratchet(_, _, _, _)
Ratchet(v, cs, atr_mult, i) ==
    IF i <= 1
    THEN [long_adj  |-> IF Len(cs) = 0 THEN <<>> ELSE <<LongStop(v, cs, atr_mult, 1)>>,
          short_adj |-> IF Len(cs) = 0 THEN <<>> ELSE <<ShortStop(v, cs, atr_mult, 1)>>,
          trend     |-> <<1>>]
    ELSE RatchetStep(v, cs, atr_mult, i, Ratchet(v, cs, atr_mult, i - 1))

\* the trend sequence of a candle window
compute_trend(v, cs, atr_mult) == Ratchet(v, cs, atr_mult, Len(cs)).trend

----------------------------------------------------------------------------
(* Streams.                                                                *)

\* indices into the configured stream list
Streams == {1, 2}

\* Two configured streams of one symbol and interval and one multiplier that
\* differ in the candle kind: CONFIGS[3], CONFIGS[4] of bot.py (ETHUSDT 4h 4.0,
\* Japanese and Heikin-Ashi), STREAMS[0], STREAMS[1] of chandelierbot.py
\* (ETHUSDT 1m 4.0).
Config(v, s) ==
    [symbol     |-> "ETHUSDT",
     interval   |-> IF v = "bot" THEN "4h" ELSE "1m",
     atr_mult   |-> 4,
     use_heikin |-> (s = 2)]

\* Optional[int] None
None == 0

\* the fields of a Stream object after __init__
StreamInit == [candles |-> <<>>, last_alert |-> None, last_direction |-> None]

\* deque(maxlen = HISTORY_LIMIT).append, and DataFrame concat(...).tail(HISTORY_LIMIT)
DequeAppend(q, c) == LastN(Append(q, c), HISTORY_LIMIT)

RECURSIVE DequeExtend(_, _, _)
DequeExtend(q, kl, i) == IF i = 0 THEN q
                         ELSE DequeAppend(DequeExtend(q, kl, i - 1), kl[i])

\* bootstrap as it would be if it took the baseline direction for an alert already sent
bootstrap_SeedsLastAlert(v, self, cfg, kl) ==
    IF v # "bot" /\ Len(kl) < ATR_PERIOD
    THEN [self |-> self, raised |-> TRUE]
    ELSE LET df    == IF cfg.use_heikin THEN convert_to_heikin_ashi(kl) ELSE kl
             trend == compute_trend(v, df, cfg.atr_mult)
             kept  == IF v = "bot" THEN DequeExtend(self.candles, kl, Len(kl)) ELSE df
         IN  [self   |-> [self EXCEPT !.candles = kept,
                                      !.last_alert = IF trend = <<>> THEN None
                                                     ELSE trend[Len(trend)]],
              raised |-> FALSE]

\* Stream.bootstrap on the klines kl: the fields afterwards, and whether it raised
bootstrap(v, self, cfg, kl) ==
    IF v = "bot"
    THEN [self   |-> [self EXCEPT !.candles = DequeExtend(self.candles, kl, Len(kl))],
          raised |-> FALSE]
    ELSE IF Len(kl) < ATR_PERIOD
    THEN [self |-> self, raised |-> TRUE]
    ELSE LET df    == IF cfg.use_heikin THEN convert_to_heikin_ashi(kl) ELSE kl
             trend == compute_trend(v, df, cfg.atr_mult)
         IN  [self   |-> [self EXCEPT !.candles = df, !.last_direction = trend[Len(trend)]],
              raised |-> FALSE]

\* on_kline as it would be without its test of k["x"]
IsClosed_Always(msg) == TRUE

\* only closed candles are acted on
IsClosed(msg) == msg.x

\* the alert condition without the comparison with the last alert
ShouldAlert_NoDedup(curr_dir, prev_dir, last_alert) ==
    curr_dir # prev_dir

\* the alert condition of on_kline
ShouldAlert(curr_dir, prev_dir, last_alert) ==
    curr_dir # prev_dir /\ curr_dir # last_alert

\* Stream.on_kline up to its await of the send: the fields then, the direction
\* and the price of the message handed to the sink (None: no send, on_kline has
\* returned), and whether it raised
on_kline(v, self, cfg, msg) ==
    IF ~IsClosed(msg)
    THEN [self |-> self, alert |-> None, price |-> NaN, raised |-> FALSE]
    ELSE
    LET appended == DequeAppend(self.candles, msg.k)
        candles  == IF cfg.use_heikin THEN convert_to_heikin_ashi(appended) ELSE appended
        \* bot.py transforms a copy; chandelierbot.py assigns the transform to self.df
        kept     == IF v = "bot" THEN appended ELSE candles
        trend    == compute_trend(v, candles, cfg.atr_mult)
        n        == Len(trend)
        \* the price of the message: candles[-1].close in bot.py, row["close"] in
        \* chandelierbot.py
        price    == IF v = "bot" THEN candles[Len(candles)].close ELSE msg.k.close
    IN  IF n < 2
        THEN [self   |-> [self EXCEPT !.candles = kept],
              alert  |-> None,
              price  |-> NaN,
              raised |-> (v # "bot")]
        ELSE IF ShouldAlert(trend[n], trend[n - 1], self.last_alert)
        THEN [self   |-> [self EXCEPT !.candles = kept],
              alert  |-> trend[n],
              price  |-> price,
              raised |-> FALSE]
        ELSE [self   |-> [self EXCEPT !.candles = kept,
                                      !.last_direction = IF v = "bot" THEN @ ELSE trend[n]],
              alert  |-> None,
              price  |-> NaN,
              raised |-> FALSE]

\* Stream.on_kline after its await of the send has returned
on_kline_sent(v, self, curr_dir) ==
    IF v = "bot" THEN [self EXCEPT !.last_alert = curr_dir]
    ELSE [self EXCEPT !.last_alert = curr_dir, !.last_direction = curr_dir]

\* whether an exception of the sink's post reaches on_kline
SendRaises(v) == v = "bot"

\* a worker that starts over from the bootstrap after an error
WorkerOnException_Rebootstrap(v) == IF v = "bot" THEN "init" ELSE "raised"

\* where the worker goes when its feed, or on_kline, raises
WorkerOnException(v) == IF v = "bot" THEN "sleep" ELSE "raised"

\* where the worker goes when recv returns None
WorkerOnNone(v) == IF v = "bot" THEN WorkerOnException(v) ELSE "done"

\* a worker that would not await on_kline before it receives again
CanRecv_WhileSending(p) == p \in {"recv", "sending"}

\* the worker receives only between two on_kline calls
CanRecv(p) == p = "recv"

----------------------------------------------------------------------------
(* The state machine.                                                      *)

VARIABLES
    variant,    \* which program runs: "bot" or "chandelierbot"
    market,     \* the market data the exchange serves
    stream,     \* stream[s]: the fields of Stream object s
    pc,         \* pc[s]: where main / the worker task of s stands
    msg,        \* msg[s]: the message the worker of s holds
    curr,       \* curr[s]: curr_dir of the on_kline of s that awaits its send
    fed,        \* fed[s]: market candles handed to s so far (history and feed)
    ticks,      \* ticks[s]: closed candles the live feed of s has delivered
    accepted,   \* accepted[s]: the raw candles s took in, in the order taken
    calls,      \* calls[s]: the notification calls of s, with their outcome
    inflight,   \* inflight[s]: on_kline invocations of s that have not returned
    retried,    \* retried[s]: the worker of s has slept after an error and looped
    input,      \* the arguments of a direct call of the engine's functions
    output      \* what that call returned

vars == <<variant, market, stream, pc, msg, curr, fed, ticks, accepted, calls, inflight,
          retried, input, output>>

\* no direct call: the arguments and the result while the streams run
NoInput == [candles |-> <<>>, atr_mult |-> 0]

NoOutput == [fn |-> "none"]

NoMsg == [x |-> FALSE, k |-> Candle(0, Flt(0), Flt(0), Flt(0), Flt(0))]

Init ==
    /\ variant \in {"bot", "chandelierbot"}
    /\ market \in Markets
    /\ stream = [s \in Streams |-> StreamInit]
    /\ pc = [s \in Streams |-> "init"]
    /\ msg = [s \in Streams |-> NoMsg]
    /\ curr = [s \in Streams |-> None]
    /\ fed = [s \in Streams |-> 0]
    /\ ticks = [s \in Streams |-> 0]
    /\ accepted = [s \in Streams |-> <<>>]
    /\ calls = [s \in Streams |-> <<>>]
    /\ inflight = [s \in Streams |-> 0]
    /\ retried = [s \in Streams |-> FALSE]
    /\ input = NoInput
    /\ output = NoOutput

\* a notification call: the direction and the price of its message, the close time
\* of the candle it was made at, and its outcome ("pending", "ok", "failed")
Call(d, p, t) == [dir |-> d, price |-> p, at |-> t, result |-> "pending"]

\* an exception that leaves a task or main ends the process: every task is cancelled
Crash == [s \in Streams |-> "cancelled"]

\* pc after the task of s moved to `to`
Goto(s, to) == IF to = "raised" THEN Crash ELSE [pc EXCEPT ![s] = to]

\* main: the streams are bootstrapped one after the other
Bootstrap(s) ==
    /\ pc[s] = "init"
    /\ \A t \in Streams : t < s => pc[t] = "booted"
    /\ \E n \in BootLens :
         LET kl == History(market, n)
             r  == bootstrap(variant, stream[s], Config(variant, s), kl)
         IN  /\ stream' = [stream EXCEPT ![s] = r.self]
             /\ pc' = IF r.raised THEN Crash ELSE [pc EXCEPT ![s] = "booted"]
             /\ fed' = [fed EXCEPT ![s] = n]
             /\ accepted' = [accepted EXCEPT ![s] = IF r.raised THEN @ ELSE kl]
    /\ UNCHANGED <<input, output, variant, market, msg, curr, ticks, calls, inflight, retried>>

\* main: one task per stream, once every stream is bootstrapped
StartWorkers ==
    /\ \A s \in Streams : pc[s] = "booted"
    /\ pc' = [s \in Streams |-> "connect"]
    /\ UNCHANGED <<input, output, variant, market, stream, msg, curr, fed, ticks, accepted, calls, inflight, retried>>

\* the worker opens its kline socket
Connect(s) ==
    /\ pc[s] = "connect"
    /\ pc' = [pc EXCEPT ![s] = "recv"]
    /\ UNCHANGED <<input, output, variant, market, stream, msg, curr, fed, ticks, accepted, calls, inflight, retried>>

\* opening the socket raises
ConnectFail(s) ==
    /\ pc[s] = "connect"
    /\ pc' = Goto(s, WorkerOnException(variant))
    /\ UNCHANGED <<input, output, variant, market, stream, msg, curr, fed, ticks, accepted, calls, inflight, retried>>

\* recv returns a kline message: the candle in progress, or the candle just closed
RecvKline(s) ==
    /\ CanRecv(pc[s])
    /\ \E x \in BOOLEAN :
         /\ x => ticks[s] < MaxTicks
         /\ msg' = [msg EXCEPT ![s] = [x |-> x, k |-> MarketCandle(market, fed[s] + 1)]]
         /\ fed' = [fed EXCEPT ![s] = IF x THEN @ + 1 ELSE @]
         /\ ticks' = [ticks EXCEPT ![s] = IF x THEN @ + 1 ELSE @]
    /\ pc' = [pc EXCEPT ![s] = "handle"]
    /\ UNCHANGED <<input, output, variant, market, stream, curr, accepted, calls, inflight, retried>>

\* recv returns None: the feed has ended
RecvNone(s) ==
    /\ CanRecv(pc[s])
    /\ pc' = Goto(s, WorkerOnNone(variant))
    /\ UNCHANGED <<input, output, variant, market, stream, msg, curr, fed, ticks, accepted, calls, inflight, retried>>

\* recv raises
RecvError(s) ==
    /\ CanRecv(pc[s])
    /\ pc' = Goto(s, WorkerOnException(variant))
    /\ UNCHANGED <<input, output, variant, market, stream, msg, curr, fed, ticks, accepted, calls, inflight, retried>>

\* the worker calls on_kline on the message it holds; on_kline runs to its return
\* or to its await of the send
OnKline(s) ==
    /\ pc[s] = "handle"
    /\ LET r == on_kline(variant, stream[s], Config(variant, s), msg[s])
       IN  /\ stream' = [stream EXCEPT ![s] = r.self]
           /\ accepted' = [accepted EXCEPT ![s] = IF IsClosed(msg[s]) THEN Append(@, msg[s].k) ELSE @]
           /\ IF r.raised
              THEN /\ pc' = Goto(s, WorkerOnException(variant))
                   /\ UNCHANGED <<curr, calls, inflight>>
              ELSE IF r.alert # None
              THEN /\ pc' = [pc EXCEPT ![s] = "sending"]
                   /\ curr' = [curr EXCEPT ![s] = r.alert]
                   /\ calls' = [calls EXCEPT ![s] = Append(@, Call(r.alert, r.price, msg[s].k.time))]
                   /\ inflight' = [inflight EXCEPT ![s] = @ + 1]
              ELSE /\ pc' = [pc EXCEPT ![s] = "recv"]
                   /\ UNCHANGED <<curr, calls, inflight>>
    /\ UNCHANGED <<input, output, variant, market, msg, fed, ticks, retried>>

\* the outcome of the last notification call of s is set
Outcome(s, result) == [calls EXCEPT ![s] = [@ EXCEPT ![Len(@)] = [@ EXCEPT !.result = result]]]

\* the end of on_kline if last_alert were an attribute of the class, shared by
\* every Stream object
SendReturns_SharedLastAlert(s, result) ==
    /\ stream' = [t \in Streams |-> on_kline_sent(variant, stream[t], curr[s])]
    /\ pc' = [pc EXCEPT ![s] = "recv"]
    /\ calls' = Outcome(s, result)
    /\ curr' = [curr EXCEPT ![s] = None]
    /\ inflight' = [inflight EXCEPT ![s] = @ - 1]

\* the end of on_kline if the sink took one message at a time: a send returns only
\* when no other stream's send is pending
SendReturns_Serialized(s, result) ==
    /\ \A t \in Streams \ {s} : pc[t] # "sending"
    /\ stream' = [stream EXCEPT ![s] = on_kline_sent(variant, @, curr[s])]
    /\ pc' = [pc EXCEPT ![s] = "recv"]
    /\ calls' = Outcome(s, result)
    /\ curr' = [curr EXCEPT ![s] = None]
    /\ inflight' = [inflight EXCEPT ![s] = @ - 1]

\* the send returns to on_kline, which finishes
SendReturns(s, result) ==
    /\ stream' = [stream EXCEPT ![s] = on_kline_sent(variant, @, curr[s])]
    /\ pc' = [pc EXCEPT ![s] = "recv"]
    /\ calls' = Outcome(s, result)
    /\ curr' = [curr EXCEPT ![s] = None]
    /\ inflight' = [inflight EXCEPT ![s] = @ - 1]

\* the sink's post succeeds
SendOk(s) ==
    /\ pc[s] = "sending"
    /\ SendReturns(s, "ok")
    /\ UNCHANGED <<input, output, variant, market, msg, fed, ticks, accepted, retried>>

\* the sink's post raises
SendFail(s) ==
    /\ pc[s] = "sending"
    /\ IF SendRaises(variant)
       THEN /\ pc' = Goto(s, WorkerOnException(variant))
            /\ calls' = Outcome(s, "failed")
            /\ curr' = [curr EXCEPT ![s] = None]
            /\ inflight' = [inflight EXCEPT ![s] = @ - 1]
            /\ UNCHANGED stream
       ELSE SendReturns(s, "failed")
    /\ UNCHANGED <<input, output, variant, market, msg, fed, ticks, accepted, retried>>

\* the worker's sleep after an error is over: it loops and opens a fresh socket
Sleep(s) ==
    /\ pc[s] = "sleep"
    /\ pc' = [pc EXCEPT ![s] = "connect"]
    /\ retried' = [retried EXCEPT ![s] = TRUE]
    /\ UNCHANGED <<input, output, variant, market, stream, msg, curr, fed, ticks, accepted, calls, inflight>>

Next ==
    \/ \E s \in Streams : Bootstrap(s)
    \/ StartWorkers
    \/ \E s \in Streams : Connect(s)
    \/ \E s \in Streams : ConnectFail(s)
    \/ \E s \in Streams : RecvKline(s)
    \/ \E s \in Streams : RecvNone(s)
    \/ \E s \in Streams : RecvError(s)
    \/ \E s \in Streams : OnKline(s)
    \/ \E s \in Streams : SendOk(s)
    \/ \E s \in Streams : SendFail(s)
    \/ \E s \in Streams : Sleep(s)

Spec == Init /\ [][Next]_vars

\* What the workers' progress rests on: the sleep before a retry ends, and a socket
\* that is opened again and again opens in the end.
Fairness ==
    \A s \in Streams :
        /\ WF_vars(Sleep(s))
        /\ SF_vars(Connect(s))

FairSpec == Spec /\ Fairness

----------------------------------------------------------------------------
(* The engine's functions called directly: compute_trend and the           *)
(* Heikin-Ashi transform on every window of up to MaxWindow candles drawn  *)
(* from a small set, with either program's engine.                         *)

\* Longest window handed to the functions.
MaxWindow == 4

\* (open, high, low, close) of the candles the windows are made of: four flat
\* candles and one with a spread around its close
CandleShapes == {<<1, 1, 1, 1>>, <<2, 2, 2, 2>>, <<3, 3, 3, 3>>, <<4, 4, 4, 4>>,
                 <<2, 3, 1, 2>>}

\* the multipliers the engine is called with
Mults == {1, 4}

\* ta's AverageTrueRange indexes atr[window - 1]: chandelierbot.py's compute_trend
\* raises IndexError on a window shorter than the period; bot.py's never raises
compute_trend_raises(v, cs) == v = "chandelierbot" /\ Len(cs) < ATR_PERIOD

\* what a call of compute_trend computes: the trend it returns and the locals
\* behind it
ComputeTrendCall(v, cs, atr_mult) ==
    IF compute_trend_raises(v, cs)
    THEN [fn |-> "compute_trend", raised |-> TRUE]
    ELSE LET r == Ratchet(v, cs, atr_mult, Len(cs))
         IN  [fn         |-> "compute_trend",
              raised     |-> FALSE,
              atr        |-> [i \in 1..Len(cs) |-> Atr(v, cs, i)],
              long_stop  |-> [i \in 1..Len(cs) |-> LongStop(v, cs, atr_mult, i)],
              short_stop |-> [i \in 1..Len(cs) |-> ShortStop(v, cs, atr_mult, i)],
              long_adj   |-> r.long_adj,
              short_adj  |-> r.short_adj,
              trend      |-> r.trend]

\* the streams stand still while the functions are called directly
EngineInit ==
    /\ variant \in {"bot", "chandelierbot"}
    /\ market = "updown"
    /\ stream = [s \in Streams |-> StreamInit]
    /\ pc = [s \in Streams |-> "init"]
    /\ msg = [s \in Streams |-> NoMsg]
    /\ curr = [s \in Streams |-> None]
    /\ fed = [s \in Streams |-> 0]
    /\ ticks = [s \in Streams |-> 0]
    /\ accepted = [s \in Streams |-> <<>>]
    /\ calls = [s \in Streams |-> <<>>]
    /\ inflight = [s \in Streams |-> 0]
    /\ retried = [s \in Streams |-> FALSE]
    /\ input \in [candles : {<<>>}, atr_mult : Mults]
    /\ output = NoOutput

EngineFrame ==
    UNCHANGED <<variant, market, stream, pc, msg, curr, fed, ticks, accepted, calls,
                inflight, retried>>

\* the window grows by one candle, closed one time unit after the last
AppendCandle ==
    /\ Len(input.candles) < MaxWindow
    /\ \E p \in CandleShapes :
         input' = [input EXCEPT !.candles =
                      Append(@, Candle(Len(@) + 1, Flt(p[1]), Flt(p[2]), Flt(p[3]), Flt(p[4])))]
    /\ output' = NoOutput
    /\ EngineFrame

\* compute_trend(candles, atr_mult)
CallComputeTrend ==
    /\ output.fn # "compute_trend"
    /\ output' = ComputeTrendCall(variant, input.candles, input.atr_mult)
    /\ UNCHANGED input
    /\ EngineFrame

\* convert_to_heikin_ashi(candles) / heikin_ashi(df)
CallHeikinAshi ==
    /\ output.fn # "heikin_ashi"
    /\ input.candles # <<>>
    /\ output' = [fn |-> "heikin_ashi", ha |-> convert_to_heikin_ashi(input.candles)]
    /\ UNCHANGED input
    /\ EngineFrame

EngineNext ==
    \/ AppendCandle
    \/ CallComputeTrend
    \/ CallHeikinAshi

EngineSpec == EngineInit /\ [][EngineNext]_vars

----------------------------------------------------------------------------
(* Properties.                                                             *)

\* the trend sequence stream s computes over the window st.candles it retains
TrendSeen(v, s, st) ==
    compute_trend(v,
                  IF v = "bot" /\ Config(v, s).use_heikin
                  THEN convert_to_heikin_ashi(st.candles) ELSE st.candles,
                  Config(v, s).atr_mult)

Last(q) == q[Len(q)]

\* the step is on_kline of s, called on the message the worker holds
HandlerStep(s) == pc[s] = "handle" /\ pc'[s] \in {"recv", "sending", "sleep"}

\* C1: on a closed candle, on_kline makes exactly one notification call, with
\* direction curr, if curr # prev and curr # last_alert_direction, where curr and
\* prev are the last two elements of the trend recomputed over the retained window
\* after the append; it makes no call otherwise; and no other step makes a call.
C1_OneCallPerQualifyingFlip ==
    [][\A s \in Streams :
         /\ (HandlerStep(s) /\ msg[s].x) =>
               LET t == TrendSeen(variant, s, stream'[s])
                   n == Len(t)
               IN  IF n >= 2 /\ t[n] # t[n - 1] /\ t[n] # stream[s].last_alert
                   THEN /\ Len(calls'[s]) = Len(calls[s]) + 1
                        /\ SubSeq(calls'[s], 1, Len(calls[s])) = calls[s]
                        /\ Last(calls'[s]).dir = t[n]
                   ELSE calls'[s] = calls[s]
         /\ Len(calls'[s]) # Len(calls[s]) => (HandlerStep(s) /\ msg[s].x)
      ]_vars

\* C1 witness: a stream has just made its second call, for the opposite direction.
C1_Witness ==
    \E s \in Streams :
        /\ pc[s] = "sending"
        /\ Len(calls[s]) = 2
        /\ calls[s][1].dir # calls[s][2].dir

\* C2: no two successive notification calls of one stream carry the same direction,
\* whatever sends failed and whatever reconnects happened in between.
C2_NoRepeatedDirection ==
    \A s \in Streams :
        \A i \in 1..(Len(calls[s]) - 1) : calls[s][i].dir # calls[s][i + 1].dir

\* C3: last_alert_direction is None until the first alert is dispatched and from
\* then on, once on_kline has finished with it, the direction of the last
\* notification call.
C3_LastAlertIsLastDispatched ==
    \A s \in Streams :
        pc[s] # "sending" =>
            stream[s].last_alert = IF calls[s] = <<>> THEN None ELSE Last(calls[s]).dir

\* C4: on_kline on a message whose closed flag is false changes neither the candle
\* buffer nor last_alert_direction (nor any other field), makes no notification
\* call, and returns to the worker's receive.
C4_OpenCandleIgnored ==
    [][\A s \in Streams :
         (HandlerStep(s) /\ ~msg[s].x) =>
             /\ stream'[s] = stream[s]
             /\ calls'[s] = calls[s]
             /\ accepted'[s] = accepted[s]
             /\ pc'[s] = "recv"
      ]_vars

\* C4 witness: a stream that holds a full buffer and has alerted has just ignored
\* a message of the candle in progress.
C4_Witness ==
    \E s \in Streams :
        /\ pc[s] = "recv"
        /\ ~msg[s].x
        /\ msg[s].k.time = fed[s] + 1
        /\ Len(stream[s].candles) = HISTORY_LIMIT
        /\ stream[s].last_alert # None

\* C5: the buffer never holds more than HISTORY_LIMIT candles and always equals the
\* most recent min(k, HISTORY_LIMIT) of the k candles accepted so far, in order.
C5_BufferIsRecentWindow ==
    \A s \in Streams :
        /\ Len(stream[s].candles) <= HISTORY_LIMIT
        /\ stream[s].candles = LastN(accepted[s], HISTORY_LIMIT)

\* C6: bootstrap makes no notification call and leaves last_alert_direction None,
\* also on a history whose last two directions differ; every notification call is
\* made at a candle the live feed delivered after the history.
C6_BootstrapNotAlertable ==
    \A s \in Streams :
        /\ ticks[s] = 0 => (calls[s] = <<>> /\ stream[s].last_alert = None)
        /\ Len(calls[s]) <= ticks[s]
        /\ \A i \in 1..Len(calls[s]) : calls[s][i].at > fed[s] - ticks[s]

\* C6 witness: a stream is bootstrapped from a history whose trend flips at its end.
C6_Witness ==
    \E s \in Streams :
        /\ pc[s] = "booted"
        /\ Len(stream[s].candles) = HISTORY_LIMIT
        /\ LET t == TrendSeen(variant, s, stream[s])
           IN  Last(t) # t[Len(t) - 1]

\* C7: a stream's task never terminates while the process runs, and after every
\* failure of its feed it eventually receives from a fresh feed.
C7_NoStreamDropped ==
    \A s \in Streams :
        /\ [](pc[s] # "done")
        /\ (pc[s] = "sleep") ~> (pc[s] = "recv")

\* C8: from the failure of a feed to the fresh feed, the worker leaves the stream's
\* fields (buffer contents and order, last_alert_direction) as they were and never
\* goes back to the bootstrap.
C8_ReconnectKeepsState ==
    [][\A s \in Streams :
         pc[s] \in {"connect", "recv", "sleep"} =>
             /\ stream'[s] = stream[s]
             /\ accepted'[s] = accepted[s]
             /\ pc'[s] \notin {"init", "booted"}
      ]_vars

\* C8 witness: a worker that slept after an error receives again, with a full
\* buffer and an alert on record.
C8_Witness ==
    \E s \in Streams :
        /\ retried[s]
        /\ pc[s] = "recv"
        /\ Len(stream[s].candles) = HISTORY_LIMIT
        /\ stream[s].last_alert # None

\* C9: when the sink's send fails, the error does not reach the stream's task: the
\* worker keeps its feed and goes on to receive the next event.
C9_SendFailureDropped ==
    [][\A s \in Streams :
         (/\ pc[s] = "sending"
          /\ calls'[s] # calls[s]
          /\ Last(calls'[s]).result = "failed") => pc'[s] = "recv"
      ]_vars

\* C10: on_kline calls of one stream never overlap: the worker receives and holds
\* a message only when no on_kline is in flight, at most one delivered candle is
\* not yet appended, and the candles are accepted, and kept, in the order the feed
\* delivered them.
C10_SequentialInOrder ==
    \A s \in Streams :
        /\ inflight[s] \in {0, 1}
        /\ pc[s] \in {"recv", "handle"} => inflight[s] = 0
        /\ inflight[s] = 1 => pc[s] \in {"sending", "cancelled"}
        /\ accepted[s] = History(market, Len(accepted[s]))
        /\ fed[s] - Len(accepted[s]) \in {0, 1}
        /\ fed[s] - Len(accepted[s]) = 1 =>
               pc[s] \in {"handle", "cancelled"} /\ msg[s].x /\ msg[s].k.time = fed[s]
        /\ (pc[s] = "handle" /\ msg[s].x) => fed[s] - Len(accepted[s]) = 1
        /\ [i \in 1..Len(stream[s].candles) |-> stream[s].candles[i].time]
             = [i \in 1..Len(stream[s].candles) |->
                  Len(accepted[s]) - Len(stream[s].candles) + i]

\* C10 witness: a worker holds the next closed candle after an earlier on_kline of
\* its stream has awaited its send to the end.
C10_Witness ==
    \E s \in Streams :
        /\ pc[s] = "handle"
        /\ msg[s].x
        /\ calls[s] # <<>>
        /\ Last(calls[s]).result = "ok"

\* C11: streams are isolated.  A step changes the fields (candle buffer,
\* last_alert_direction) of a stream only if it is that stream's own bootstrap or
\* on_kline, it sets them to what that call computes from the stream's own fields,
\* and it leaves the fields, the accepted candles and the calls of every other
\* stream unchanged; so no event and no feed failure of one stream touches another.
C11_StreamsIsolated ==
    [][\A t \in Streams :
         stream'[t] # stream[t] =>
            /\ pc[t] \in {"init", "handle", "sending"}
            /\ pc'[t] # pc[t]
            /\ \/ \E n \in BootLens :
                    stream'[t] = bootstrap(variant, stream[t], Config(variant, t),
                                           History(market, n)).self
               \/ stream'[t] = on_kline(variant, stream[t], Config(variant, t), msg[t]).self
               \/ stream'[t] = on_kline_sent(variant, stream[t], curr[t])
            /\ \A u \in Streams \ {t} :
                   /\ stream'[u] = stream[u]
                   /\ accepted'[u] = accepted[u]
                   /\ calls'[u] = calls[u]
      ]_vars

\* C11 witness: of two streams of one symbol and interval that differ in the candle
\* kind, one has processed two closed candles and recorded an alert while the other
\* still holds exactly its bootstrap history and no alert.
C11_Witness ==
    \E s, t \in Streams :
        /\ s # t
        /\ Config(variant, s).symbol = Config(variant, t).symbol
        /\ Config(variant, s).interval = Config(variant, t).interval
        /\ Config(variant, s).use_heikin # Config(variant, t).use_heikin
        /\ ticks[s] >= 2
        /\ stream[s].last_alert # None
        /\ pc[t] = "recv"
        /\ ticks[t] = 0
        /\ accepted[t] = History(market, HISTORY_LIMIT)
        /\ Len(stream[t].candles) = HISTORY_LIMIT
        /\ stream[t].last_alert = None

\* compute_trend has returned from a call on the window input.candles
TrendReturned == output.fn = "compute_trend" /\ ~output.raised

\* C12: the engine's comparisons are strict.  At every index after the first, a
\* close equal to the previous short level does not make the direction +1 (it is
\* +1 only if it was +1), a close equal to the previous long level does not make it
\* -1, and a close that equals one level without passing the other keeps the
\* previous direction.
C12_StrictInequalities ==
    TrendReturned =>
        \A i \in 2..Len(input.candles) :
            LET close      == input.candles[i].close
                prev_short == output.short_adj[i - 1]
                prev_long  == output.long_adj[i - 1]
            IN  /\ close = prev_short =>
                       (output.trend[i] = 1 => output.trend[i - 1] = 1)
                /\ close = prev_long =>
                       (output.trend[i] = 0 - 1 => output.trend[i - 1] = 0 - 1)
                /\ (\/ close = prev_short /\ ~Lt(close, prev_long)
                    \/ close = prev_long /\ ~Gt(close, prev_short)) =>
                       output.trend[i] = output.trend[i - 1]

\* C12 witness: a window in which a close meets the short level exactly while the
\* direction is -1 and the long level lies elsewhere, and stays -1.
C12_Witness ==
    /\ TrendReturned
    /\ \E i \in 2..Len(input.candles) :
          /\ input.candles[i].close = output.short_adj[i - 1]
          /\ output.short_adj[i - 1] # output.long_adj[i - 1]
          /\ output.trend[i - 1] = 0 - 1
          /\ output.trend[i] = 0 - 1

\* C13: short history is not an error.  compute_trend called on a window of at
\* least one candle and fewer than ATR_PERIOD candles returns, without raising, a
\* trend of the window's length whose elements are all +1.
C13_ShortHistoryNoError ==
    (/\ output.fn = "compute_trend"
     /\ Len(input.candles) >= 1
     /\ Len(input.candles) < ATR_PERIOD) =>
        /\ ~output.raised
        /\ Len(output.trend) = Len(input.candles)
        /\ \A i \in 1..Len(output.trend) : output.trend[i] = 1

\* C14: sends do not serialize across streams.  While on_kline of one stream awaits
\* its send, the task of every other stream can take each of its own steps: it can
\* receive its next closed candle, its on_kline on the message it holds has an
\* outcome (a return, a send of its own or an exception) that its own fields and
\* message determine, and its own pending send can return.
C14_SendsDoNotSerialize ==
    \A s, t \in Streams :
        (s # t /\ pc[s] = "sending") =>
            /\ (pc[t] = "recv" /\ ticks[t] < MaxTicks) => ENABLED (RecvKline(t) /\ msg'[t].x)
            /\ pc[t] = "handle" =>
                   LET r == on_kline(variant, stream[t], Config(variant, t), msg[t])
                   IN  r.raised \in BOOLEAN /\ r.alert \in {None, 1, 0 - 1}
            /\ pc[t] = "sending" => ENABLED SendOk(t)

\* C14 witness: two streams await their sends at once, so the second of them made
\* its notification call while the send of the first was pending.
C14_Witness ==
    \E s, t \in Streams :
        /\ s # t
        /\ pc[s] = "sending"
        /\ pc[t] = "sending"
        /\ Last(calls[s]).result = "pending"
        /\ Last(calls[t]).result = "pending"

\* C15: a Heikin-Ashi stream retains the raw candles as received, never the
\* transformed ones, and the direction it alerts on is the last element of a
\* from-scratch compute_trend over the Heikin-Ashi transform of the raw retained
\* window.
C15_RawHistoryKept ==
    \A s \in Streams :
        Config(variant, s).use_heikin =>
            LET raw == LastN(accepted[s], HISTORY_LIMIT)
            IN  /\ stream[s].candles = raw
                /\ pc[s] = "sending" =>
                       curr[s] = Last(compute_trend(variant, convert_to_heikin_ashi(raw),
                                                    Config(variant, s).atr_mult))

\* C16: the ratchet.  At every index after the first, if the previous close is above
\* the previous adjusted long level, long_adj is the greater of the raw long stop
\* and the previous adjusted level, so it does not decrease; otherwise it is reset
\* to the raw long stop.  Symmetrically short_adj is the lesser of the raw short
\* stop and the previous adjusted level while the previous close is below that
\* level, and the raw short stop otherwise.
C16_RatchetRule ==
    TrendReturned =>
        \A i \in 2..Len(input.candles) :
            LET prev_close == input.candles[i - 1].close
                prev_long  == output.long_adj[i - 1]
                prev_short == output.short_adj[i - 1]
                long_stop  == output.long_stop[i]
                short_stop == output.short_stop[i]
                long_adj   == output.long_adj[i]
                short_adj  == output.short_adj[i]
            IN  /\ IF Gt(prev_close, prev_long)
                   THEN /\ long_adj \in {long_stop, prev_long}
                        /\ ~Lt(long_adj, long_stop)
                        /\ ~Lt(long_adj, prev_long)
                   ELSE long_adj = long_stop
                /\ IF Lt(prev_close, prev_short)
                   THEN /\ short_adj \in {short_stop, prev_short}
                        /\ ~Gt(short_adj, short_stop)
                        /\ ~Gt(short_adj, prev_short)
                   ELSE short_adj = short_stop

\* C16 witness: a window in which the long level is held above a lower raw stop at
\* an index whose previous adjusted level differs from the previous raw level, and
\* in which the short level is reset at some index.
C16_Witness ==
    /\ TrendReturned
    /\ \E i \in 3..Len(input.candles) :
          /\ Gt(input.candles[i - 1].close, output.long_adj[i - 1])
          /\ Lt(output.long_stop[i], output.long_adj[i - 1])
          /\ output.long_adj[i] = output.long_adj[i - 1]
          /\ output.long_adj[i - 1] # output.long_stop[i - 1]
    /\ \E i \in 3..Len(input.candles) :
          /\ ~Lt(input.candles[i - 1].close, output.short_adj[i - 1])
          /\ output.short_adj[i] = output.short_stop[i]
          /\ output.short_adj[i] # output.short_adj[i - 1]

\* the Heikin-Ashi transform has returned from a call on the window input.candles
HaReturned == output.fn = "heikin_ashi"

\* a <= b for two defined values
Le(a, b) == ~Gt(a, b)

\* C17: the Heikin-Ashi transform of a window of at least one candle has the
\* window's length and times; ha_close is the mean of the raw candle's four prices;
\* ha_open is the mean of the first raw open and close at the first index and of the
\* previous synthetic open and close after it; ha_high is at least ha_open and
\* ha_close and ha_low at most; and the call leaves the window it was given as it
\* was.
C17_HeikinAshiShape ==
    HaReturned =>
        LET cs == input.candles
            ha == output.ha
        IN  /\ Len(cs) >= 1
            /\ Len(ha) = Len(cs)
            /\ \A i \in 1..Len(cs) :
                  /\ ha[i].time = cs[i].time
                  /\ Mul(4, ha[i].close)
                       = Add(Add(Add(cs[i].open, cs[i].high), cs[i].low), cs[i].close)
                  /\ Mul(2, ha[i].open)
                       = IF i = 1 THEN Add(cs[1].open, cs[1].close)
                         ELSE Add(ha[i - 1].open, ha[i - 1].close)
                  /\ Le(ha[i].open, ha[i].high)
                  /\ Le(ha[i].close, ha[i].high)
                  /\ Le(ha[i].low, ha[i].open)
                  /\ Le(ha[i].low, ha[i].close)
            /\ \A i \in 1..Len(cs) :
                  \E p \in CandleShapes :
                      cs[i] = Candle(i, Flt(p[1]), Flt(p[2]), Flt(p[3]), Flt(p[4]))

\* C17 witness: a transformed window of full length in which a synthetic open lies
\* above the raw high of its candle and another below the raw low of its candle.
C17_Witness ==
    /\ HaReturned
    /\ Len(input.candles) = MaxWindow
    /\ \E i \in 2..Len(input.candles) : Gt(output.ha[i].open, input.candles[i].high)
    /\ \E i \in 2..Len(input.candles) : Lt(output.ha[i].open, input.candles[i].low)

\* C18: the ATR of a window.  With tr[i] the greatest of high - low,
\* |high - previous close| and |low - previous close|, the previous close of the
\* first candle being its own close: atr is undefined below the index of the
\* ATR_PERIOD-th candle, there it is the arithmetic mean of the first ATR_PERIOD
\* true ranges, after it atr[i] = (atr[i-1] * (ATR_PERIOD - 1) + tr[i]) / ATR_PERIOD,
\* and it is never negative where defined.
C18_WilderAtr ==
    TrendReturned =>
        LET cs  == input.candles
            atr == output.atr
            tr == [i \in 1..Len(cs) |->
                     LET prev_close == IF i = 1 THEN cs[1].close ELSE cs[i - 1].close
                         three == {Sub(cs[i].high, cs[i].low),
                                   Abs(Sub(cs[i].high, prev_close)),
                                   Abs(Sub(cs[i].low, prev_close))}
                     IN  CHOOSE x \in three : \A y \in three : ~Gt(y, x)]
            sum[k \in 0..Len(cs)] == IF k = 0 THEN Flt(0) ELSE Add(sum[k - 1], tr[k])
        IN  \A i \in 1..Len(cs) :
                /\ i < ATR_PERIOD => IsNaN(atr[i])
                /\ i = ATR_PERIOD => Mul(ATR_PERIOD, atr[i]) = sum[ATR_PERIOD]
                /\ i > ATR_PERIOD =>
                       Mul(ATR_PERIOD, atr[i]) = Add(Mul(ATR_PERIOD - 1, atr[i - 1]), tr[i])
                /\ ~IsNaN(atr[i]) => ~Lt(atr[i], Flt(0))

\* C19: the long test comes first.  At every index after the first at which the
\* close is above the previous short level and below the previous long level at
\* once, the direction is +1, whatever the previous direction.
C19_LongTestFirst ==
    TrendReturned =>
        \A i \in 2..Len(input.candles) :
            (/\ Gt(input.candles[i].close, output.short_adj[i - 1])
             /\ Lt(input.candles[i].close, output.long_adj[i - 1])) =>
                output.trend[i] = 1

\* C19 witness: a window in which the short level lies below the long level, the
\* close falls between them while the direction is -1, and the direction turns +1.
C19_Witness ==
    /\ TrendReturned
    /\ \E i \in 2..Len(input.candles) :
          /\ Lt(output.short_adj[i - 1], output.long_adj[i - 1])
          /\ Gt(input.candles[i].close, output.short_adj[i - 1])
          /\ Lt(input.candles[i].close, output.long_adj[i - 1])
          /\ output.trend[i - 1] = 0 - 1
          /\ output.trend[i] = 1

\* C20: streaming agrees with itself across ticks.  When on_kline of s handles the
\* closed candle of tick t+1 and the one before it was the closed candle of tick t,
\* the direction prev that the recomputation gives the candle of tick t equals the
\* direction curr that the recomputation at tick t gave it, evictions included; so
\* the current direction changes between the two ticks only where curr # prev.
C20_StreamingAgreesAcrossTicks ==
    [][\A s \in Streams :
         (HandlerStep(s) /\ msg[s].x /\ ticks[s] >= 2 /\ pc'[s] # "sleep") =>
             LET before == TrendSeen(variant, s, stream[s])
                 after  == TrendSeen(variant, s, stream'[s])
                 n      == Len(after)
             IN  /\ after[n - 1] = Last(before)
                 /\ after[n] # Last(before) => after[n] # after[n - 1]
      ]_vars

====
